---- MODULE Spec2Model ----
(***************************************************************************)
(* The jam-spot calendar of host_agent_adk/host/jam_session_tools.py:      *)
(* the module-level table JAM_SPOT_SCHEDULE, generate_friends_schedule,    *)
(* list_jam_spot_availabilities and book_jam_session.                      *)
(*                                                                         *)
(* Date and time strings are sequences of one-character strings, so that   *)
(* datetime.strptime and strftime are computed character by character and  *)
(* "parse then format" is not the identity ("9:00" parses, and is written  *)
(* back as "09:00").  Occupant labels are never parsed by the code and     *)
(* stay plain strings.                                                     *)
(*                                                                         *)
(* The host agent of host_agent_adk/host/host_agent.py: the friend         *)
(* directory built by HostAgent.create, the response stream of             *)
(* HostAgent.stream and the dispatch of HostAgent.send_message.            *)
(***************************************************************************)
EXTENDS Integers, Sequences, FiniteSets, Bags, TLC

VARIABLES
    JAM_SPOT_SCHEDULE,  \* date string -> (slot string -> occupant label)
    today,              \* date.today() as read by the last generation, <<y, m, d>>
    call,               \* the last call: operation and arguments
    result,             \* the value the last call returned
    before,             \* JAM_SPOT_SCHEDULE when the last call started
    booked,             \* the bag of the slot writes of the bookings that succeeded
    calls,              \* number of calls made since the module was loaded
    frames,             \* the bookings in progress when requests are handled
                        \* in parallel: each handler's position and locals
    interleaved,        \* a booking has started while another was in progress
    remote_agent_connections,   \* HostAgent: friend name -> connection, a dict
    cards,              \* HostAgent: friend name -> agent card, a dict
    agents,             \* HostAgent: the directory summary, a string
    build,              \* HostAgent.create: its position, the addresses it
                        \* was given and what each fetch has produced
    sessions,           \* the session ids the runner's session service holds
    turn,               \* HostAgent.stream: its position, the events the
                        \* runner has produced and the payloads yielded
    dispatch            \* HostAgent.send_message: the last call and its outcome

\* the calendar and the calls made on it one at a time
jamVars == <<JAM_SPOT_SCHEDULE, today, call, result, before, booked, calls>>

\* the bookings handled in parallel
parallelVars == <<frames, interleaved>>

\* the host agent
hostVars == <<remote_agent_connections, cards, agents, build>>

\* a turn of the host agent: the response stream and the tool dispatch
turnVars == <<sessions, turn, dispatch>>

\* what the calls made one at a time leave alone
otherVars == <<parallelVars, hostVars, turnVars>>

vars == <<jamVars, otherVars>>

----------------------------------------------------------------------------
(* Characters                                                              *)

Digits == <<"0", "1", "2", "3", "4", "5", "6", "7", "8", "9">>

DigitChars == {Digits[i] : i \in 1..10}

\* the value of a digit character
DigitVal(c) == (CHOOSE i \in 1..10 : Digits[i] = c) - 1

\* the characters the regular expression class \s matches
Whitespace == {" ", "\t", "\n"}

\* the number a directive's text stands for, of one, two or four
\* characters; int(" 1") = 1
IntOf(s) ==
    LET v(i) == IF s[i] \in DigitChars THEN DigitVal(s[i]) ELSE 0 IN
    IF Len(s) = 1 THEN v(1)
    ELSE IF Len(s) = 2 THEN 10 * v(1) + v(2)
    ELSE 1000 * v(1) + 100 * v(2) + 10 * v(3) + v(4)

\* f"{n:02}" and strftime's %m, %d, %H, %M
Pad2(n) == <<Digits[(n \div 10) + 1], Digits[(n % 10) + 1]>>

\* strftime's %Y for a four-digit year
Pad4(n) == Pad2(n \div 100) \o Pad2(n % 100)

----------------------------------------------------------------------------
(* The calendar arithmetic of datetime.date                                *)

IsLeap(y) == (y % 4 = 0) /\ ((y % 100 # 0) \/ (y % 400 = 0))

DaysInMonth(y, m) ==
    IF m = 2 THEN (IF IsLeap(y) THEN 29 ELSE 28)
    ELSE IF m \in {4, 6, 9, 11} THEN 30 ELSE 31

\* d + timedelta(days=1)
NextDay(d) ==
    IF d[3] < DaysInMonth(d[1], d[2]) THEN <<d[1], d[2], d[3] + 1>>
    ELSE IF d[2] < 12 THEN <<d[1], d[2] + 1, 1>>
    ELSE <<d[1] + 1, 1, 1>>

\* d + timedelta(days=i)
RECURSIVE AddDays(_, _)
AddDays(d, i) == IF i = 0 THEN d ELSE AddDays(NextDay(d), i - 1)

\* d.strftime("%Y-%m-%d")
FormatDate(d) == Pad4(d[1]) \o <<"-">> \o Pad2(d[2]) \o <<"-">> \o Pad2(d[3])

\* t.strftime("%H:%M"), t the minutes since midnight of the instant
FormatTime(t) == Pad2(t \div 60) \o <<":">> \o Pad2(t % 60)

----------------------------------------------------------------------------
(* datetime.strptime: the regular expression of each directive             *)
(*   %Y  \d\d\d\d                                                          *)
(*   %m  1[0-2]|0[1-9]|[1-9]                                               *)
(*   %d  3[0-1]|[1-2]\d|0[1-9]|[1-9]| [1-9]                                *)
(*   %H  2[0-3]|[0-1]\d|\d                                                 *)
(*   %M  [0-5]\d|\d                                                        *)
(* a blank of the format is \s+; the match is anchored at the start and    *)
(* text left over after it is an error ("unconverted data remains").       *)

NonZero == DigitChars \ {"0"}

MonthRe(s) ==
    \/ Len(s) = 2 /\ s[1] = "1" /\ s[2] \in {"0", "1", "2"}
    \/ Len(s) = 2 /\ s[1] = "0" /\ s[2] \in NonZero
    \/ Len(s) = 1 /\ s[1] \in NonZero

DayRe(s) ==
    \/ Len(s) = 2 /\ s[1] = "3" /\ s[2] \in {"0", "1"}
    \/ Len(s) = 2 /\ s[1] \in {"1", "2"} /\ s[2] \in DigitChars
    \/ Len(s) = 2 /\ s[1] = "0" /\ s[2] \in NonZero
    \/ Len(s) = 1 /\ s[1] \in NonZero
    \/ Len(s) = 2 /\ s[1] = " " /\ s[2] \in NonZero

HourRe(s) ==
    \/ Len(s) = 2 /\ s[1] = "2" /\ s[2] \in {"0", "1", "2", "3"}
    \/ Len(s) = 2 /\ s[1] \in {"0", "1"} /\ s[2] \in DigitChars
    \/ Len(s) = 1 /\ s[1] \in DigitChars

MinuteRe(s) ==
    \/ Len(s) = 2 /\ s[1] \in {"0", "1", "2", "3", "4", "5"} /\ s[2] \in DigitChars
    \/ Len(s) = 1 /\ s[1] \in DigitChars

YearRe(s) == Len(s) = 4 /\ \A i \in 1..4 : s[i] \in DigitChars

\* the ways "%Y-%m-%d" matches a prefix of s: the fields and the position
\* after the match
DateMatches(s) ==
    IF Len(s) < 5 \/ ~YearRe(SubSeq(s, 1, 4)) \/ s[5] # "-" THEN {}
    ELSE {[Y |-> SubSeq(s, 1, 4), m |-> SubSeq(s, 6, 5 + lm),
           d |-> SubSeq(s, 7 + lm, 6 + lm + ld), next |-> 7 + lm + ld] :
             <<lm, ld>> \in {p \in (1..2) \X (1..2) :
                 /\ 6 + p[1] + p[2] <= Len(s)
                 /\ MonthRe(SubSeq(s, 6, 5 + p[1]))
                 /\ s[6 + p[1]] = "-"
                 /\ DayRe(SubSeq(s, 7 + p[1], 6 + p[1] + p[2]))}}

\* the length of the run of \s characters of s from position p
RECURSIVE BlankRun(_, _)
BlankRun(s, p) ==
    IF p <= Len(s) /\ s[p] \in Whitespace THEN 1 + BlankRun(s, p + 1) ELSE 0

\* the ways "\s+%H:%M" matches s from position p: \s+ takes the whole run
\* of blanks, since no alternative of %H starts with one
TimeMatches(s, p) ==
    LET h == p + BlankRun(s, p) IN
    IF h = p THEN {}
    ELSE {[H |-> SubSeq(s, h, h + q[1] - 1),
           M |-> SubSeq(s, h + q[1] + 1, h + q[1] + q[2]),
           next |-> h + q[1] + q[2] + 1] :
             q \in {q \in (1..2) \X (1..2) :
                 /\ h + q[1] + q[2] <= Len(s)
                 /\ HourRe(SubSeq(s, h, h + q[1] - 1))
                 /\ s[h + q[1]] = ":"
                 /\ MinuteRe(SubSeq(s, h + q[1] + 1, h + q[1] + q[2]))}}

\* the regular expression engine returns its first match, which prefers
\* an earlier alternative of a directive: the two-character alternatives
\* come first, except " [1-9]" of %d, which no other alternative overlaps
First(ms) == CHOOSE x \in ms : \A y \in ms : x.next >= y.next

\* the date the fields denote is built by datetime(): a year below MINYEAR
\* or a day the month does not have raises ValueError
ValidDate(y, m, d) == y >= 1 /\ d <= DaysInMonth(y, m)

ValueError == [ok |-> FALSE]

\* datetime.strptime(s, "%Y-%m-%d")
StrptimeDate(s) ==
    LET ms == DateMatches(s) IN
    IF ms = {} THEN ValueError
    ELSE LET x == First(ms)
             y == IntOf(x.Y)
             m == IntOf(x.m)
             d == IntOf(x.d)
         IN  IF x.next # Len(s) + 1 \/ ~ValidDate(y, m, d) THEN ValueError
             ELSE [ok |-> TRUE, date |-> <<y, m, d>>, minutes |-> 0]

\* datetime.strptime(s, "%Y-%m-%d %H:%M")
StrptimeDateTime(s) ==
    LET ms == DateMatches(s) IN
    IF ms = {} THEN ValueError
    ELSE LET ts == UNION {{[dm |-> x, tm |-> t] : t \in TimeMatches(s, x.next)} : x \in ms}
         IN  IF ts = {} THEN ValueError
             ELSE LET x == CHOOSE z \in ts : \A w \in ts : z.tm.next >= w.tm.next
                      y == IntOf(x.dm.Y)
                      m == IntOf(x.dm.m)
                      d == IntOf(x.dm.d)
                  IN  IF x.tm.next # Len(s) + 1 \/ ~ValidDate(y, m, d) THEN ValueError
                      ELSE [ok |-> TRUE, date |-> <<y, m, d>>,
                            minutes |-> 60 * IntOf(x.tm.H) + IntOf(x.tm.M)]

----------------------------------------------------------------------------
(* Instants: what strptime returns, <<y, m, d>> and minutes since midnight *)

DateLess(a, b) ==
    \/ a[1] < b[1]
    \/ a[1] = b[1] /\ a[2] < b[2]
    \/ a[1] = b[1] /\ a[2] = b[2] /\ a[3] < b[3]

\* a < b on datetime values
DtLess(a, b) ==
    \/ DateLess(a.date, b.date)
    \/ a.date = b.date /\ a.minutes < b.minutes

\* t + timedelta(hours=1); a day has 1440 minutes
AddHour(t) ==
    IF t.minutes + 60 < 1440
    THEN [t EXCEPT !.minutes = @ + 60]
    ELSE [t EXCEPT !.date = NextDay(@), !.minutes = @ + 60 - 1440]

----------------------------------------------------------------------------
(* generate_friends_schedule                                               *)

FirstHour == 8

StopHour == 21

WindowDays == 7

\* the label of a free slot
Free == "unknown"

\* [f"{h:02}:00" for h in range(8, 21)]
possible_times ==
    [i \in 1..(StopHour - FirstHour) |-> Pad2(FirstHour + i - 1) \o <<":", "0", "0">>]

Range(f) == {f[i] : i \in DOMAIN f}

\* the date strings of range(7) days from t
WindowDates(t) == {FormatDate(AddDays(t, i)) : i \in 0..(WindowDays - 1)}

\* {time: "unknown" for time in possible_times}
FreshDay == [time \in Range(possible_times) |-> Free]

\* the table after the loop of generate_friends_schedule has assigned the
\* entry of each date of the window; the other entries are not touched
generate_friends_schedule(schedule, t) ==
    [date_str \in (DOMAIN schedule) \cup WindowDates(t) |->
        IF date_str \in WindowDates(t) THEN FreshDay ELSE schedule[date_str]]

\* the table before the module has run: {}
EmptySchedule == [date_str \in {} |-> FreshDay]

NoneResult == [status |-> "None", message |-> <<"None">>]

\* the texts of the results
MsgInvalidDate == "Invalid date format. Please use YYYY-MM-DD."

MsgInvalidInput == "Invalid date or time format. Please use YYYY-MM-DD and HH:MM."

MsgInvalidRange == "Start time must be before end time."

MsgNotOpen == "The jam spot is not open on "

MsgMissingName == "Cannot book a jam spot without a reservation name."

MsgConflict == "The time slot "

MsgBooked == "Success! The jam session has been booked for "

MsgSchedule == "Schedule for "

----------------------------------------------------------------------------
(* list_jam_spot_availabilities                                            *)

\* the keys of a day's dict in iteration order: the order of insertion,
\* which is the order of possible_times; a key a booking were to add would
\* follow them
RECURSIVE SetToSeq(_)
SetToSeq(S) ==
    IF S = {} THEN <<>>
    ELSE LET x == CHOOSE y \in S : TRUE IN <<x>> \o SetToSeq(S \ {x})

DayKeys(daily_schedule) ==
    SelectSeq(possible_times, LAMBDA k : k \in DOMAIN daily_schedule)
        \o SetToSeq((DOMAIN daily_schedule) \ Range(possible_times))

\* list_jam_spot_availabilities without the test of line 42: the day is
\* JAM_SPOT_SCHEDULE.get(date, {})
ListWithoutOpenTest(schedule, date) ==
    IF ~StrptimeDate(date).ok
    THEN [status |-> "error", message |-> <<MsgInvalidDate>>]
    ELSE LET daily_schedule ==
                 IF date \in DOMAIN schedule THEN schedule[date]
                 ELSE [time \in {} |-> Free]
         IN  [status |-> "success",
              message |-> <<MsgSchedule, date, ".">>,
              available_slots |->
                  SelectSeq(DayKeys(daily_schedule),
                            LAMBDA time : daily_schedule[time] = Free),
              booked_slots |->
                  [time \in {k \in DOMAIN daily_schedule : daily_schedule[k] # Free}
                      |-> daily_schedule[time]]]

\* list_jam_spot_availabilities with booked_slots not filtered
ListAllBooked(schedule, date) ==
    IF ~StrptimeDate(date).ok
    THEN [status |-> "error", message |-> <<MsgInvalidDate>>]
    ELSE IF date \notin DOMAIN schedule \/ DOMAIN schedule[date] = {}
    THEN [status |-> "success",
          message |-> <<MsgNotOpen, date, ".">>,
          schedule |-> {}]
    ELSE LET daily_schedule == schedule[date] IN
         [status |-> "success",
          message |-> <<MsgSchedule, date, ".">>,
          available_slots |->
              SelectSeq(DayKeys(daily_schedule),
                        LAMBDA time : daily_schedule[time] = Free),
          booked_slots |-> daily_schedule]

list_jam_spot_availabilities(schedule, date) ==
    IF ~StrptimeDate(date).ok
    THEN [status |-> "error", message |-> <<MsgInvalidDate>>]
    ELSE IF date \notin DOMAIN schedule \/ DOMAIN schedule[date] = {}
    THEN [status |-> "success",
          message |-> <<MsgNotOpen, date, ".">>,
          schedule |-> {}]
    ELSE LET daily_schedule == schedule[date] IN
         [status |-> "success",
          message |-> <<MsgSchedule, date, ".">>,
          available_slots |->
              SelectSeq(DayKeys(daily_schedule),
                        LAMBDA time : daily_schedule[time] = Free),
          booked_slots |->
              [time \in {k \in DOMAIN daily_schedule : daily_schedule[k] # Free}
                  |-> daily_schedule[time]]]

----------------------------------------------------------------------------
(* The arguments the calls are made with                                   *)

D_0801 == <<"2", "0", "2", "4", "-", "0", "8", "-", "0", "1">>

D_1229 == <<"2", "0", "2", "3", "-", "1", "2", "-", "2", "9">>

\* no month 13, no day 40
D_Malformed == <<"2", "0", "2", "4", "-", "1", "3", "-", "4", "0">>

\* "2024-08-01 ": a blank after the day
D_Trailing == D_0801 \o <<" ">>

\* "2024-8-1": the same day as D_0801, written without the zeros
D_Short == <<"2", "0", "2", "4", "-", "8", "-", "1">>

Dates == {D_0801, D_1229, D_Malformed, D_Trailing, D_Short}

T_0700 == <<"7", ":", "0", "0">>

T_1000 == <<"1", "0", ":", "0", "0">>

T_1030 == <<"1", "0", ":", "3", "0">>

T_1100 == <<"1", "1", ":", "0", "0">>

T_1200 == <<"1", "2", ":", "0", "0">>

T_2200 == <<"2", "2", ":", "0", "0">>

Times == {T_0700, T_1000, T_1030, T_1100, T_1200, T_2200}

Names == {"", "Bob", "Alice", Free}

\* the days date.today() returns at a generation: the window of the first
\* runs into the next year and holds D_1229, that of the second starts at
\* D_0801
Todays == {<<2023, 12, 28>>, <<2024, 8, 1>>}

----------------------------------------------------------------------------
(* book_jam_session                                                        *)

\* RequiredSlots with the loop run while the cursor is not after end_dt
RECURSIVE RequiredSlotsInclusive(_, _)
RequiredSlotsInclusive(current_time, end_dt) ==
    IF ~DtLess(end_dt, current_time)
    THEN <<FormatTime(current_time.minutes)>>
             \o RequiredSlotsInclusive(AddHour(current_time), end_dt)
    ELSE <<>>

\* the while loop of lines 100-104: the slot keys from start_dt, an hour
\* apart, while the cursor is before end_dt
RECURSIVE RequiredSlots(_, _)
RequiredSlots(current_time, end_dt) ==
    IF DtLess(current_time, end_dt)
    THEN <<FormatTime(current_time.minutes)>>
             \o RequiredSlots(AddHour(current_time), end_dt)
    ELSE <<>>

\* SlotGet with the free label as the default of the lookup
SlotGetFree(daily_schedule, slot) ==
    IF slot \in DOMAIN daily_schedule THEN daily_schedule[slot] ELSE Free

\* daily_schedule.get(slot, "booked")
SlotGet(daily_schedule, slot) ==
    IF slot \in DOMAIN daily_schedule THEN daily_schedule[slot] ELSE "booked"

\* str(daily_schedule.get(slot)) as the message prints it
PartyOf(daily_schedule, slot) ==
    IF slot \in DOMAIN daily_schedule THEN daily_schedule[slot] ELSE "None"

\* ConflictIndex with the scan not stopping at the first slot it finds:
\* the last slot that is not free is the one reported
ConflictIndexLast(daily_schedule, required_slots) ==
    LET hit == {i \in DOMAIN required_slots :
                    SlotGet(daily_schedule, required_slots[i]) # Free}
    IN  IF hit = {} THEN 0 ELSE CHOOSE i \in hit : \A j \in hit : i >= j

\* the scan of lines 107-113: the index of the slot the loop returns at,
\* 0 when it runs to its end
ConflictIndex(daily_schedule, required_slots) ==
    LET hit == {i \in DOMAIN required_slots :
                    SlotGet(daily_schedule, required_slots[i]) # Free}
    IN  IF hit = {} THEN 0 ELSE CHOOSE i \in hit : \A j \in hit : i <= j

\* the loop of lines 115-116 on the day's dict: an assignment to a key the
\* dict does not hold adds the key
Commit(daily_schedule, required_slots, reservation_name) ==
    [slot \in (DOMAIN daily_schedule) \cup Range(required_slots) |->
        IF slot \in Range(required_slots) THEN reservation_name
        ELSE daily_schedule[slot]]

\* CheckArguments with the date looked up before the range is compared
CheckArgumentsOpenFirst(schedule, date, start_dt, end_dt, reservation_name) ==
    IF ~start_dt.ok \/ ~end_dt.ok THEN <<MsgInvalidInput>>
    ELSE IF date \notin DOMAIN schedule THEN <<MsgNotOpen, date, ".">>
    ELSE IF ~DtLess(start_dt, end_dt) THEN <<MsgInvalidRange>>
    ELSE IF reservation_name = "" THEN <<MsgMissingName>>
    ELSE <<>>

\* the checks of lines 79-98 in their order: the message of the first
\* that fails, <<>> when all pass
CheckArguments(schedule, date, start_dt, end_dt, reservation_name) ==
    IF ~start_dt.ok \/ ~end_dt.ok THEN <<MsgInvalidInput>>
    ELSE IF ~DtLess(start_dt, end_dt) THEN <<MsgInvalidRange>>
    ELSE IF date \notin DOMAIN schedule THEN <<MsgNotOpen, date, ".">>
    ELSE IF reservation_name = "" THEN <<MsgMissingName>>
    ELSE <<>>

\* the value book_jam_session returns, the table it leaves, and the slots
\* it wrote
book_jam_session(schedule, date, start_time, end_time, reservation_name) ==
    LET start_dt == StrptimeDateTime(date \o <<" ">> \o start_time)
        end_dt == StrptimeDateTime(date \o <<" ">> \o end_time)
        failed == CheckArguments(schedule, date, start_dt, end_dt, reservation_name)
        Error(msg) == [ret |-> [status |-> "error", message |-> msg],
                       schedule |-> schedule, written |-> {}]
    IN
    IF failed # <<>> THEN Error(failed)
    ELSE
    LET required_slots == RequiredSlots(start_dt, end_dt)
        daily_schedule == schedule[date]
        c == ConflictIndex(daily_schedule, required_slots)
    IN
    IF c # 0
    THEN Error(<<MsgConflict, required_slots[c], " on ", date,
                 " is already booked by ",
                 PartyOf(daily_schedule, required_slots[c]), ".">>)
    ELSE [ret |-> [status |-> "success",
                   message |-> <<MsgBooked, reservation_name, " from ", start_time,
                                 " to ", end_time, " on ", date, ".">>],
          schedule |-> [schedule EXCEPT
              ![date] = Commit(daily_schedule, required_slots, reservation_name)],
          written |-> Range(required_slots)]

----------------------------------------------------------------------------
(* HostAgent (host_agent.py): the friend directory                         *)

\* a Python dict keeps its keys in insertion order: a sequence of entries
EmptyDict == <<>>

Keys(d) == {d[i].key : i \in DOMAIN d}

\* the value None
None == [none |-> TRUE]

\* d.get(k): None when d does not hold k
DictGet(d, k) ==
    IF k \in Keys(d) THEN d[CHOOSE i \in DOMAIN d : d[i].key = k].value
    ELSE None

\* d[k] = v: the value of a key the dict holds is replaced where it stands,
\* a new key is added at the end
DictSet(d, k, v) ==
    IF k \in Keys(d)
    THEN [i \in DOMAIN d |-> IF d[i].key = k THEN [key |-> k, value |-> v] ELSE d[i]]
    ELSE Append(d, [key |-> k, value |-> v])

\* list(d.values())
Values(d) == [i \in DOMAIN d |-> d[i].value]

\* the string "" (strings the host builds are sequences of pieces)
EmptyString == <<>>

\* what card_resolver.get_agent_card() does: it returns a card or raises
FetchedCard(name, description) ==
    [kind |-> "card", name |-> name, description |-> description]

ConnectError == [kind |-> "httpx.ConnectError"]

TimeoutError == [kind |-> "httpx.ReadTimeout"]

MalformedCard == [kind |-> "pydantic.ValidationError"]

\* _register_remote_agent with the handler of line 221 left out: only a
\* refused connection is caught
RegisterWithoutCatchAll(connections, cardmap, address, fetched) ==
    IF fetched.kind = "httpx.ConnectError"
    THEN [remote_agent_connections |-> connections, cards |-> cardmap,
          raised |-> FALSE]
    ELSE IF fetched.kind # "card"
    THEN [remote_agent_connections |-> connections, cards |-> cardmap,
          raised |-> TRUE]
    ELSE LET card == [name |-> fetched.name, description |-> fetched.description]
         IN  [remote_agent_connections |->
                  DictSet(connections, card.name,
                          [agent_card |-> card, agent_url |-> address]),
              cards |-> DictSet(cardmap, card.name, card),
              raised |-> FALSE]

\* _register_remote_agent: the dicts it leaves, and whether an exception
\* leaves it
_register_remote_agent(connections, cardmap, address, fetched) ==
    IF fetched.kind = "httpx.ConnectError"
    THEN [remote_agent_connections |-> connections, cards |-> cardmap,
          raised |-> FALSE]
    ELSE IF fetched.kind # "card"
    THEN [remote_agent_connections |-> connections, cards |-> cardmap,
          raised |-> FALSE]
    ELSE LET card == [name |-> fetched.name, description |-> fetched.description]
         IN  [remote_agent_connections |->
                  DictSet(connections, card.name,
                          [agent_card |-> card, agent_url |-> address]),
              cards |-> DictSet(cardmap, card.name, card),
              raised |-> FALSE]

\* json.dumps({"name": card.name, "description": card.description})
JsonDumps(card) ==
    <<"{", "\"name\"", ": ", "\"", card.name, "\"", ", ",
      "\"description\"", ": ", "\"", card.description, "\"", "}">>

\* sep.join(lines)
RECURSIVE Join(_, _)
Join(lines, sep) ==
    IF lines = <<>> THEN EmptyString
    ELSE IF Len(lines) = 1 THEN lines[1]
    ELSE lines[1] \o <<sep>> \o Join(Tail(lines), sep)

NoFriendsFound == <<"No friends found">>

\* _refresh_agent_directory with the join made of an empty list too
RefreshWithoutMarker(cardmap) ==
    LET agent_info == [i \in DOMAIN cardmap |-> JsonDumps(Values(cardmap)[i])]
    IN  Join(agent_info, "\n")

\* _refresh_agent_directory: the value it assigns to self.agents
_refresh_agent_directory(cardmap) ==
    LET agent_info == [i \in DOMAIN cardmap |-> JsonDumps(Values(cardmap)[i])]
    IN  IF agent_info # <<>> THEN Join(agent_info, "\n") ELSE NoFriendsFound

\* the addresses of the friends (config.py)
Addresses == {"http://localhost:10002", "http://localhost:10003"}

\* what a fetch may produce
FetchOutcomes ==
    {FetchedCard("Bob_Agent", "plays bass"), FetchedCard("Alice_Agent", "plays drums"),
     FetchedCard("Bob_Agent", "plays guitar"),
     ConnectError, TimeoutError, MalformedCard}

----------------------------------------------------------------------------
(* HostAgent.stream                                                        *)

\* AGENT_THINKING_MESSAGE (config.py)
AGENT_THINKING_MESSAGE == <<"The host agent is thinking...">>

\* the content of an event: its parts, or None; a part carries a text or
\* none (a function call, a function response), written ""
NoContent == [none |-> TRUE, parts |-> <<>>]

Content(parts) == [none |-> FALSE, parts |-> parts]

\* the texts of the parts that have one, in order
RECURSIVE Texts(_)
Texts(parts) ==
    IF parts = <<>> THEN <<>>
    ELSE (IF parts[1].text # "" THEN <<<<parts[1].text>>>> ELSE <<>>)
             \o Texts(Tail(parts))

\* _extract_response_text
_extract_response_text(content) ==
    IF content.none \/ content.parts = <<>> THEN EmptyString
    ELSE Join(Texts(content.parts), "\n")

\* the body of the loop of stream (lines 160-171): what it yields for an
\* event
StreamEvent(event) ==
    IF event.final
    THEN <<[is_task_complete |-> TRUE,
            content |-> _extract_response_text(event.content)]>>
    ELSE <<[is_task_complete |-> FALSE, updates |-> AGENT_THINKING_MESSAGE]>>

\* the events runner.run_async may produce: event.is_final_response() and
\* event.content
RunnerEvents ==
    {[final |-> FALSE, content |-> Content(<<[text |-> ""]>>)],
     [final |-> TRUE, content |-> Content(<<[text |-> "Booked."]>>)],
     [final |-> TRUE, content |-> NoContent],
     [final |-> TRUE,
      content |-> Content(<<[text |-> "Bob is free."], [text |-> ""],
                            [text |-> "Alice is not."]>>)]}

SessionIds == {"s1", "s2"}

----------------------------------------------------------------------------
(* HostAgent.send_message                                                  *)

\* what client.send_message returns: send_response.root is a success
\* response or an error response, and the result of a success is a Task,
\* with its artifacts, or a Message.  A friend that cannot be reached
\* answers through the connection as well, with the error response
TextPart(text) == [kind |-> "text", text |-> text]

TaskResponse(artifacts) ==
    [root |-> "SendMessageSuccessResponse", result |-> "Task",
     artifacts |-> artifacts]

MessageResponse ==
    [root |-> "SendMessageSuccessResponse", result |-> "Message",
     artifacts |-> <<>>]

ErrorResponse ==
    [root |-> "JSONRPCErrorResponse", result |-> "None", artifacts |-> <<>>]

\* responses.extend(artifact.get("parts", [])) for every artifact
RECURSIVE ExtendParts(_)
ExtendParts(artifacts) ==
    IF artifacts = <<>> THEN <<>>
    ELSE artifacts[1].parts \o ExtendParts(Tail(artifacts))

\* send_message: the exception that leaves it, "" when it returns, and the
\* value it returns
send_message(connections, agent_name, task, send_response) ==
    LET client == DictGet(connections, agent_name) IN
    IF client = None THEN [raised |-> "ValueError", ret |-> None]
    ELSE IF \/ send_response.root # "SendMessageSuccessResponse"
            \/ send_response.result # "Task"
    THEN [raised |-> "", ret |-> None]
    ELSE [raised |-> "",
          ret |-> [none |-> FALSE, parts |-> ExtendParts(send_response.artifacts)]]

\* the names the agent may pass: the friends and a name no card carries
AgentNames == {"Bob_Agent", "Alice_Agent", "Chico_Agent"}

Tasks == {"Are you free on 2024-08-01?"}

SendResponses ==
    {TaskResponse(<<[parts |-> <<TextPart("10:00"), TextPart("11:00")>>],
                    [parts |-> <<TextPart("12:00")>>]>>),
     TaskResponse(<<>>),
     MessageResponse,
     ErrorResponse}

Queries == {"Schedule a jam session with Bob."}

----------------------------------------------------------------------------
(* The bounds of the model *)

\* the turns of the host agent
MaxTurns == 2

\* the events the runner produces in a turn
MaxEvents == 3

\* the calls made after the module is loaded
MaxCalls == 2

\* the addresses HostAgent.create is given
MaxAddresses == 3

----------------------------------------------------------------------------
(* The state machine                                                       *)

\* no call is in progress: the caller has taken the value of the last one
NoCall == [op |-> "none"]

\* the handlers of parallel requests
Procs == {1, 2}

\* a handler that is not inside book_jam_session
NoFrame == [pc |-> "idle"]

Idle == call = NoCall

\* the module is loaded: JAM_SPOT_SCHEDULE = {} and line 20 generates it
Init ==
    \E t \in Todays :
        /\ today = t
        /\ JAM_SPOT_SCHEDULE = generate_friends_schedule(EmptySchedule, t)
        /\ before = EmptySchedule
        /\ call = [op |-> "generate_friends_schedule"]
        /\ result = NoneResult
        /\ booked = EmptyBag
        /\ calls = 0
        /\ frames = [p \in Procs |-> NoFrame]
        /\ interleaved = FALSE
        /\ remote_agent_connections = EmptyDict
        /\ cards = EmptyDict
        /\ agents = EmptyString
        /\ build = [pc |-> "new"]
        /\ sessions = {}
        /\ turn = [pc |-> "idle", n |-> 0]
        /\ dispatch = NoCall

Availability(date) ==
    /\ Idle
    /\ calls < MaxCalls
    /\ calls' = calls + 1
    /\ call' = [op |-> "list_jam_spot_availabilities", date |-> date]
    /\ result' = list_jam_spot_availabilities(JAM_SPOT_SCHEDULE, date)
    /\ before' = JAM_SPOT_SCHEDULE
    /\ UNCHANGED <<JAM_SPOT_SCHEDULE, today, booked>>
    /\ UNCHANGED otherVars

Book(date, start_time, end_time, reservation_name) ==
    /\ Idle
    /\ calls < MaxCalls
    /\ LET r == book_jam_session(JAM_SPOT_SCHEDULE, date, start_time, end_time,
                                 reservation_name)
       IN  /\ result' = r.ret
           /\ JAM_SPOT_SCHEDULE' = r.schedule
           /\ booked' = booked (+) SetToBag(
                  {[date |-> date, slot |-> slot, name |-> reservation_name] :
                      slot \in r.written})
    /\ calls' = calls + 1
    /\ call' = [op |-> "book_jam_session", date |-> date,
                start_time |-> start_time, end_time |-> end_time,
                reservation_name |-> reservation_name]
    /\ before' = JAM_SPOT_SCHEDULE
    /\ UNCHANGED today
    /\ UNCHANGED otherVars

\* generate_friends_schedule is called again, on a day t not before the
\* day of the last generation
Generate(t) ==
    /\ Idle
    /\ calls < MaxCalls
    /\ ~DateLess(t, today)
    /\ calls' = calls + 1
    /\ call' = [op |-> "generate_friends_schedule"]
    /\ result' = NoneResult
    /\ today' = t
    /\ JAM_SPOT_SCHEDULE' = generate_friends_schedule(JAM_SPOT_SCHEDULE, t)
    /\ before' = JAM_SPOT_SCHEDULE
    /\ UNCHANGED booked
    /\ UNCHANGED otherVars

\* the caller takes the returned value; the table is all that stays
Return ==
    /\ ~Idle
    /\ call' = NoCall
    /\ result' = NoneResult
    /\ before' = JAM_SPOT_SCHEDULE
    /\ UNCHANGED <<JAM_SPOT_SCHEDULE, today, booked, calls>>
    /\ UNCHANGED otherVars

\* the two tools the host agent is given (host_agent.py, lines 97-101)
Next ==
    \/ \E date \in Dates : Availability(date)
    \/ \E date \in Dates, start_time \in Times, end_time \in Times,
          reservation_name \in Names :
            Book(date, start_time, end_time, reservation_name)
    \/ Return

Spec == Init /\ [][Next]_vars

\* any sequence of generate, availability and booking calls
NextRegen ==
    \/ Next
    \/ \E t \in Todays : Generate(t)

SpecRegen == Init /\ [][NextRegen]_vars

----------------------------------------------------------------------------
(* book_jam_session under parallel request handling: the function holds   *)
(* no lock, so between its argument checks (lines 79-104), its conflict    *)
(* scan (lines 106-113) and its commit loop (lines 115-116) another        *)
(* handler may run.  daily_schedule is a reference to the day's dict of    *)
(* JAM_SPOT_SCHEDULE, so the scan and the commit act on the live table.    *)

InProgress(p) == frames[p].pc \in {"scan", "commit"}

\* lines 79-104: the arguments are parsed and checked and required_slots
\* is built
BookStart(p, date, start_time, end_time, reservation_name) ==
    /\ frames[p].pc = "idle"
    /\ calls < MaxCalls
    /\ calls' = calls + 1
    /\ LET start_dt == StrptimeDateTime(date \o <<" ">> \o start_time)
           end_dt == StrptimeDateTime(date \o <<" ">> \o end_time)
           failed == CheckArguments(JAM_SPOT_SCHEDULE, date, start_dt, end_dt,
                                    reservation_name)
       IN  frames' = [frames EXCEPT ![p] =
               IF failed # <<>>
               THEN [pc |-> "done",
                     ret |-> [status |-> "error", message |-> failed],
                     date |-> date, written |-> {}]
               ELSE [pc |-> "scan", date |-> date, start_time |-> start_time,
                     end_time |-> end_time,
                     reservation_name |-> reservation_name,
                     required_slots |-> RequiredSlots(start_dt, end_dt)]]
    /\ interleaved' = (interleaved \/ \E q \in Procs \ {p} : InProgress(q))
    /\ UNCHANGED <<JAM_SPOT_SCHEDULE, today, call, result, before, booked>>
    /\ UNCHANGED <<hostVars, turnVars>>

\* lines 106-113: the conflict scan, on the day's dict as it is now
BookScan(p) ==
    /\ frames[p].pc = "scan"
    /\ LET f == frames[p]
           daily_schedule == JAM_SPOT_SCHEDULE[f.date]
           c == ConflictIndex(daily_schedule, f.required_slots)
       IN  frames' = [frames EXCEPT ![p] =
               IF c # 0
               THEN [pc |-> "done",
                     ret |-> [status |-> "error",
                              message |-> <<MsgConflict, f.required_slots[c],
                                  " on ", f.date, " is already booked by ",
                                  PartyOf(daily_schedule, f.required_slots[c]),
                                  ".">>],
                     date |-> f.date, written |-> {}]
               ELSE [f EXCEPT !.pc = "commit"]]
    /\ UNCHANGED <<jamVars, interleaved, hostVars, turnVars>>

\* lines 115-121: the commit loop and the success value
BookCommit(p) ==
    /\ frames[p].pc = "commit"
    /\ LET f == frames[p] IN
        /\ JAM_SPOT_SCHEDULE' = [JAM_SPOT_SCHEDULE EXCEPT ![f.date] =
               Commit(@, f.required_slots, f.reservation_name)]
        /\ booked' = booked (+) SetToBag(
               {[date |-> f.date, slot |-> slot, name |-> f.reservation_name] :
                   slot \in Range(f.required_slots)})
        /\ frames' = [frames EXCEPT ![p] =
               [pc |-> "done",
                ret |-> [status |-> "success",
                         message |-> <<MsgBooked, f.reservation_name, " from ",
                                       f.start_time, " to ", f.end_time, " on ",
                                       f.date, ".">>],
                date |-> f.date, written |-> Range(f.required_slots)]]
    /\ UNCHANGED <<today, call, result, before, calls, interleaved>>
    /\ UNCHANGED <<hostVars, turnVars>>

\* the handler's caller takes the returned value
BookReturn(p) ==
    /\ frames[p].pc = "done"
    /\ frames' = [frames EXCEPT ![p] = NoFrame]
    /\ UNCHANGED <<jamVars, interleaved, hostVars, turnVars>>

NextParallel ==
    \/ \E p \in Procs, date \in Dates, start_time \in Times, end_time \in Times,
          reservation_name \in Names :
            BookStart(p, date, start_time, end_time, reservation_name)
    \/ \E p \in Procs : BookScan(p)
    \/ \E p \in Procs : BookCommit(p)
    \/ \E p \in Procs : BookReturn(p)

SpecParallel == Init /\ [][NextParallel]_vars

----------------------------------------------------------------------------
(* HostAgent.create: the directory is built from a list of addresses       *)

\* the sequences over S of length at most n
SeqsUpTo(S, n) == UNION {[1..k -> S] : k \in 0..n}

\* create(remote_agent_addresses) enters _async_init_components
Create(remote_agent_addresses) ==
    /\ build.pc = "new"
    /\ build' = [pc |-> "registering", addresses |-> remote_agent_addresses,
                 fetched |-> <<>>]
    /\ UNCHANGED <<remote_agent_connections, cards, agents>>
    /\ UNCHANGED <<jamVars, parallelVars, turnVars>>

\* one turn of the loop of lines 73-74: the next address is fetched and
\* registered; an exception that leaves _register_remote_agent leaves
\* create
Register(fetched) ==
    /\ build.pc = "registering"
    /\ Len(build.fetched) < Len(build.addresses)
    /\ LET address == build.addresses[Len(build.fetched) + 1]
           r == _register_remote_agent(remote_agent_connections, cards,
                                       address, fetched)
       IN  /\ remote_agent_connections' = r.remote_agent_connections
           /\ cards' = r.cards
           /\ build' = [build EXCEPT !.fetched = Append(@, fetched),
                                     !.pc = IF r.raised THEN "raised" ELSE @]
    /\ UNCHANGED agents
    /\ UNCHANGED <<jamVars, parallelVars, turnVars>>

\* line 76, after the loop
Refresh ==
    /\ build.pc = "registering"
    /\ Len(build.fetched) = Len(build.addresses)
    /\ agents' = _refresh_agent_directory(cards)
    /\ build' = [build EXCEPT !.pc = "built"]
    /\ UNCHANGED <<remote_agent_connections, cards>>
    /\ UNCHANGED <<jamVars, parallelVars, turnVars>>

\* the agent calls its tool send_message once the host is created; the
\* friend answers with send_response
SendMessage(agent_name, task, send_response) ==
    /\ build.pc = "built"
    /\ dispatch = NoCall
    /\ LET r == send_message(remote_agent_connections, agent_name, task,
                             send_response)
       IN  dispatch' = [op |-> "send_message", agent_name |-> agent_name,
                        send_response |-> send_response,
                        raised |-> r.raised, ret |-> r.ret]
    /\ UNCHANGED <<jamVars, parallelVars, hostVars, sessions, turn>>

\* the runner takes what send_message returned or raised
SendReturn ==
    /\ dispatch # NoCall
    /\ dispatch' = NoCall
    /\ UNCHANGED <<jamVars, parallelVars, hostVars, sessions, turn>>

NextHost ==
    \/ \E remote_agent_addresses \in SeqsUpTo(Addresses, MaxAddresses) :
           Create(remote_agent_addresses)
    \/ \E fetched \in FetchOutcomes : Register(fetched)
    \/ Refresh
    \/ \E agent_name \in AgentNames, task \in Tasks, send_response \in SendResponses :
           SendMessage(agent_name, task, send_response)
    \/ SendReturn

SpecHost == Init /\ [][NextHost]_vars

----------------------------------------------------------------------------
(* HostAgent.stream: a turn                                                *)

\* stream is called: lines 154-155, the session is looked up or created
Stream(query, session_id) ==
    /\ turn.pc \in {"idle", "done"}
    /\ turn.n < MaxTurns
    /\ sessions' = sessions \cup {session_id}
    /\ turn' = [pc |-> "running", n |-> turn.n + 1, session_id |-> session_id,
                events |-> <<>>, yielded |-> <<>>]
    /\ UNCHANGED <<jamVars, parallelVars, hostVars, dispatch>>

\* the runner produces an event and the loop body runs on it
RunnerEvent(event) ==
    /\ turn.pc = "running"
    /\ Len(turn.events) < MaxEvents
    /\ turn' = [turn EXCEPT !.events = Append(@, event),
                            !.yielded = @ \o StreamEvent(event)]
    /\ UNCHANGED <<jamVars, parallelVars, hostVars, sessions, dispatch>>

\* the runner's generator is exhausted: the loop and the turn end
RunnerEnd ==
    /\ turn.pc = "running"
    /\ turn' = [turn EXCEPT !.pc = "done"]
    /\ UNCHANGED <<jamVars, parallelVars, hostVars, sessions, dispatch>>

NextStream ==
    \/ \E query \in Queries, session_id \in SessionIds : Stream(query, session_id)
    \/ \E event \in RunnerEvents : RunnerEvent(event)
    \/ RunnerEnd

SpecStream == Init /\ [][NextStream]_vars

----------------------------------------------------------------------------
(* What the claims speak of                                                *)

IsBook == call.op = "book_jam_session"

IsAvail == call.op = "list_jam_spot_availabilities"

IsGenerate == call.op = "generate_friends_schedule"

Succeeded == result.status = "success"

Failed == result.status = "error"

Unchanged == JAM_SPOT_SCHEDULE = before

\* the 13 on-the-hour keys 08:00 .. 20:00
Grid == {Pad2(h) \o <<":", "0", "0">> : h \in 8..20}

\* the time of day a time string denotes, in minutes; -1 when it denotes none
ClockOf(time) ==
    LET t == StrptimeDateTime(D_0801 \o <<" ">> \o time)
    IN  IF t.ok THEN t.minutes ELSE -1

\* the booking's date and times are accepted by the parser
CallParses ==
    /\ StrptimeDateTime(call.date \o <<" ">> \o call.start_time).ok
    /\ StrptimeDateTime(call.date \o <<" ">> \o call.end_time).ok

\* the hourly slots start, start + 1h, ... strictly before end, in time order
HourlySeq(start_time, end_time) ==
    LET s == ClockOf(start_time)
        e == ClockOf(end_time)
    IN  [k \in 1..((e - s + 59) \div 60) |-> FormatTime(s + 60 * (k - 1))]

HourlySlots(start_time, end_time) == Range(HourlySeq(start_time, end_time))

\* the days today .. today + 6
Window == {AddDays(today, i) : i \in 0..6}

\* who holds a slot of the booking's date when the call starts; a key the
\* day does not have is held by nobody and is not free
Holder(slot) ==
    IF slot \in DOMAIN before[call.date] THEN before[call.date][slot] ELSE "None"

----------------------------------------------------------------------------
(* C1: booking is all-or-nothing.  After every call of book_jam_session,   *)
(* either the call reported success and every required hourly slot of      *)
(* [start, end) on the date holds the label name, and none of them is      *)
(* still free, or it reported an error and no slot of the calendar differs *)
(* from its value before the call.                                         *)
C1_AllOrNothing ==
    IsBook =>
        \/ /\ Succeeded
           /\ call.date \in DOMAIN JAM_SPOT_SCHEDULE
           /\ \A slot \in HourlySlots(call.start_time, call.end_time) :
                 /\ slot \in DOMAIN JAM_SPOT_SCHEDULE[call.date]
                 /\ JAM_SPOT_SCHEDULE[call.date][slot] = call.reservation_name
                 /\ JAM_SPOT_SCHEDULE[call.date][slot] # Free
        \/ Failed /\ Unchanged

----------------------------------------------------------------------------
(* C2: a successful booking assigns name to exactly the hourly slots       *)
(* start, start + 1h, ... strictly before end on its date; every other     *)
(* slot of that date (the slot at end among them) and every slot of every  *)
(* other date keeps its occupant, and no date or slot key comes or goes.   *)
C2_ExactlyTheRange ==
    (IsBook /\ Succeeded) =>
        /\ DOMAIN JAM_SPOT_SCHEDULE = DOMAIN before
        /\ call.date \in DOMAIN before
        /\ HourlySlots(call.start_time, call.end_time) # {}
        /\ HourlySlots(call.start_time, call.end_time) \subseteq DOMAIN before[call.date]
        /\ \A d \in DOMAIN before :
              /\ DOMAIN JAM_SPOT_SCHEDULE[d] = DOMAIN before[d]
              /\ \A slot \in DOMAIN before[d] :
                    JAM_SPOT_SCHEDULE[d][slot] =
                        IF d = call.date
                           /\ slot \in HourlySlots(call.start_time, call.end_time)
                        THEN call.reservation_name
                        ELSE before[d][slot]

\* Bob has booked 10:00-12:00 on 2024-08-01: 10:00 and 11:00 are Bob's and
\* 12:00 is free
C2_Witness ==
    /\ IsBook /\ Succeeded
    /\ call.date = D_0801 /\ call.start_time = T_1000 /\ call.end_time = T_1200
    /\ call.reservation_name = "Bob"
    /\ JAM_SPOT_SCHEDULE[D_0801][T_1000] = "Bob"
    /\ JAM_SPOT_SCHEDULE[D_0801][T_1100] = "Bob"
    /\ JAM_SPOT_SCHEDULE[D_0801][T_1200] = Free

----------------------------------------------------------------------------
(* C3: a booking that passes the input, range, date and occupant checks    *)
(* while a required slot is not free fails with the slot-conflict error,   *)
(* which names the earliest required slot that is not free and the one     *)
(* holding it (nobody, printed None, for a key the day does not have); the *)
(* slot-conflict error is given in no other case.                          *)
C3_FirstConflictNamed ==
    IsBook =>
        LET passes == /\ CallParses
                      /\ ClockOf(call.start_time) < ClockOf(call.end_time)
                      /\ call.date \in DOMAIN before
                      /\ call.reservation_name # ""
            req == HourlySeq(call.start_time, call.end_time)
            bad == {i \in DOMAIN req : Holder(req[i]) # Free}
            first == CHOOSE i \in bad : \A j \in bad : i <= j
        IN  /\ (passes /\ bad # {}) =>
                  /\ Failed
                  /\ Unchanged
                  /\ result.message =
                         <<MsgConflict, req[first], " on ", call.date,
                           " is already booked by ", Holder(req[first]), ".">>
            /\ result.message[1] = MsgConflict => (passes /\ bad # {})

\* Bob holds 11:00-12:00; Alice asks for 10:00-12:00, whose first slot is
\* free, and is told 11:00, Bob
C3_Witness ==
    /\ IsBook /\ Failed
    /\ call.date = D_0801 /\ call.start_time = T_1000 /\ call.end_time = T_1200
    /\ call.reservation_name = "Alice"
    /\ D_0801 \in DOMAIN before
    /\ before[D_0801][T_1000] = Free /\ before[D_0801][T_1100] = "Bob"
    /\ result.message[1] = MsgConflict
    /\ result.message[2] = T_1100
    /\ result.message[6] = "Bob"

----------------------------------------------------------------------------
(* C4: re-booking never succeeds.  No slot is written by two bookings that *)
(* reported success, be it under two labels or twice under the same one,   *)
(* and a slot a successful booking wrote keeps that booking's label.       *)
C4_NoRebooking ==
    \A b1 \in BagToSet(booked) :
        /\ CopiesIn(b1, booked) = 1
        /\ \A b2 \in BagToSet(booked) :
              (b2.date = b1.date /\ b2.slot = b1.slot) => b2 = b1
        /\ JAM_SPOT_SCHEDULE[b1.date][b1.slot] = b1.name

----------------------------------------------------------------------------
(* C5, as claimed: a booking whose start is not strictly before its end    *)
(* fails with "Start time must be before end time." whatever the occupant  *)
(* label and whatever the date, acceptable or not, and leaves the calendar *)
(* unchanged.                                                              *)
C5_InvalidRangeAlways ==
    (IsBook /\ ClockOf(call.start_time) >= ClockOf(call.end_time)) =>
        /\ Failed
        /\ result.message = <<MsgInvalidRange>>
        /\ Unchanged

(* C5, amended: a booking whose start is not strictly before its end       *)
(* leaves the calendar unchanged and fails: with "Start time must be       *)
(* before end time." when its date and times are accepted by the parser,   *)
(* whatever the occupant label and whether or not the date is in the       *)
(* calendar, and with the invalid-format error when they are not.          *)
C5_InvalidRangeWhenParsed ==
    (IsBook /\ ClockOf(call.start_time) >= ClockOf(call.end_time)) =>
        /\ Failed
        /\ Unchanged
        /\ result.message =
               IF CallParses THEN <<MsgInvalidRange>> ELSE <<MsgInvalidInput>>

\* 12:00-10:00 with no name, on a date the calendar does not hold
C5_Witness ==
    /\ IsBook
    /\ call.date = D_1229 /\ D_1229 \notin DOMAIN before
    /\ call.start_time = T_1200 /\ call.end_time = T_1000
    /\ call.reservation_name = ""
    /\ result.message = <<MsgInvalidRange>>

----------------------------------------------------------------------------
(* C6: a date string that is not a date (strptime with "%Y-%m-%d" rejects  *)
(* it), passed to the availability query or to the booking, yields the     *)
(* invalid-input error as a value and leaves the calendar unchanged; in    *)
(* booking whatever the times and the occupant are.                        *)
C6_MalformedDateInvalidInput ==
    ((IsAvail \/ IsBook) /\ ~StrptimeDate(call.date).ok) =>
        /\ Failed
        /\ Unchanged
        /\ result.message =
               IF IsAvail THEN <<MsgInvalidDate>> ELSE <<MsgInvalidInput>>

----------------------------------------------------------------------------
(* C7: right after the calendar is generated every hourly slot 08:00 ..    *)
(* 20:00 of every date today .. today + 6 holds "unknown"; and an          *)
(* availability query for a well-formed date outside that window returns   *)
(* the not-open result: success, the not-open message, an empty schedule,  *)
(* and no lists of free and booked slots.                                  *)
C7_WindowFreeElseNotOpen ==
    /\ IsGenerate =>
          \A d \in Window : \A slot \in Grid :
              /\ FormatDate(d) \in DOMAIN JAM_SPOT_SCHEDULE
              /\ slot \in DOMAIN JAM_SPOT_SCHEDULE[FormatDate(d)]
              /\ JAM_SPOT_SCHEDULE[FormatDate(d)][slot] = Free
    /\ (IsAvail /\ StrptimeDate(call.date).ok
               /\ StrptimeDate(call.date).date \notin Window) =>
          /\ Succeeded
          /\ Unchanged
          /\ result.message = <<MsgNotOpen, call.date, ".">>
          /\ DOMAIN result = {"status", "message", "schedule"}
          /\ result.schedule = {}

\* 2023-12-29 is asked for in a calendar generated on 2024-08-01
C7_Witness ==
    /\ IsAvail
    /\ call.date = D_1229
    /\ today = <<2024, 8, 1>>
    /\ result.message[1] = MsgNotOpen

----------------------------------------------------------------------------
(* C8: for a date of the calendar the availability query partitions the    *)
(* day: the free list holds exactly the slots whose occupant is "unknown", *)
(* each once, the booked mapping holds exactly the others, each with its   *)
(* occupant; together they are the 13 grid hours, and no slot changes.     *)
C8_AvailabilityPartitions ==
    (IsAvail /\ call.date \in DOMAIN before) =>
        LET day == before[call.date] IN
        /\ Succeeded
        /\ Unchanged
        /\ DOMAIN result = {"status", "message", "available_slots", "booked_slots"}
        /\ Range(result.available_slots) = {slot \in DOMAIN day : day[slot] = Free}
        /\ Len(result.available_slots) = Cardinality(Range(result.available_slots))
        /\ DOMAIN result.booked_slots = {slot \in DOMAIN day : day[slot] # Free}
        /\ \A slot \in DOMAIN result.booked_slots :
              result.booked_slots[slot] = day[slot]
        /\ Range(result.available_slots) \cap DOMAIN result.booked_slots = {}
        /\ Range(result.available_slots) \cup DOMAIN result.booked_slots = Grid
        /\ Cardinality(Grid) = 13

\* after Bob's 10:00-12:00: booked is {10:00: Bob, 11:00: Bob}, the other
\* eleven hours are free
C8_Witness ==
    /\ IsAvail
    /\ call.date = D_0801
    /\ D_0801 \in DOMAIN before
    /\ DOMAIN result.booked_slots = {T_1000, T_1100}
    /\ result.booked_slots[T_1000] = "Bob"
    /\ result.booked_slots[T_1100] = "Bob"
    /\ Range(result.available_slots) = Grid \ {T_1000, T_1100}

----------------------------------------------------------------------------
(* C9: the grid invariant.  In every state every date of the calendar has  *)
(* exactly the 13 on-the-hour keys 08:00 .. 20:00, and no booking adds a   *)
(* date to the calendar, whatever its times are.                           *)
C9_GridInvariant ==
    /\ \A d \in DOMAIN JAM_SPOT_SCHEDULE : DOMAIN JAM_SPOT_SCHEDULE[d] = Grid
    /\ Cardinality(Grid) = 13
    /\ IsBook => DOMAIN JAM_SPOT_SCHEDULE = DOMAIN before

\* a booking from 10:30, for Bob, on a date of the calendar has been
\* answered: its slots 10:30 and 11:30 are no keys of the day
C9_Witness ==
    /\ IsBook
    /\ call.date = D_0801 /\ D_0801 \in DOMAIN before
    /\ call.start_time = T_1030 /\ call.end_time = T_1200
    /\ call.reservation_name = "Bob"
    /\ before[D_0801][T_1000] = Free /\ before[D_0801][T_1100] = Free
    /\ result.message[1] = MsgConflict

----------------------------------------------------------------------------
(* C10: generation replaces the calendar.  Right after generate has run    *)
(* the calendar holds exactly the dates today .. today + 6, each with      *)
(* every grid slot free: no date and no booking of the state before it     *)
(* survives.                                                               *)
C10_GenerateReplaces ==
    IsGenerate =>
        /\ DOMAIN JAM_SPOT_SCHEDULE = {FormatDate(d) : d \in Window}
        /\ \A d \in DOMAIN JAM_SPOT_SCHEDULE :
              JAM_SPOT_SCHEDULE[d] = [slot \in Grid |-> Free]

----------------------------------------------------------------------------
(* C11: the check-then-commit is atomic exactly when bookings are          *)
(* serialized.  As long as every booking has run to completion before the  *)
(* next started, no step overwrites a slot that holds an occupant other    *)
(* than the free label, and no slot is covered by two bookings that        *)
(* succeeded.                                                              *)

\* a slot is covered by two bookings that reported success
CommonSlot ==
    \E e \in BagToSet(booked) :
        \/ CopiesIn(e, booked) > 1
        \/ \E f \in BagToSet(booked) :
               f # e /\ f.date = e.date /\ f.slot = e.slot

C11_AtomicWhenSerialized ==
    [][~interleaved' =>
          /\ \A d \in DOMAIN JAM_SPOT_SCHEDULE :
                 \A slot \in DOMAIN JAM_SPOT_SCHEDULE[d] :
                     JAM_SPOT_SCHEDULE[d][slot] # Free =>
                         JAM_SPOT_SCHEDULE'[d][slot] = JAM_SPOT_SCHEDULE[d][slot]
          /\ ~CommonSlot']_vars

\* the other half of C11: with the scan of one booking between the scan
\* and the commit of another, both have reported success for a common
\* slot, under two names, and the slot holds the name written last
C11_LostUpdate ==
    /\ interleaved
    /\ \A p \in Procs : frames[p].pc = "done" /\ frames[p].ret.status = "success"
    /\ \E e \in BagToSet(booked), f \in BagToSet(booked) :
           /\ e.date = f.date /\ e.slot = f.slot
           /\ e.name # f.name /\ e.name # Free /\ f.name # Free
           /\ e.slot \in frames[1].written \cap frames[2].written
           /\ JAM_SPOT_SCHEDULE[e.date][e.slot] = f.name

----------------------------------------------------------------------------
(* C12: the directory build is best-effort.  No exception leaves create;   *)
(* every address given is fetched, whatever the earlier fetches did; the   *)
(* connections and the cards hold exactly the names of the cards fetched   *)
(* so far, each connection with an address that served its card; and once  *)
(* the build is done the summary lists exactly those names, one line each, *)
(* and is "No friends found", never the empty string, when there are none. *)

\* the fetches of the build that returned a card
Fetched == {i \in DOMAIN build.fetched : build.fetched[i].kind = "card"}

\* the friends whose fetch succeeded
Friends == {build.fetched[i].name : i \in Fetched}

\* the names the summary lists: a line is 13 pieces, the name the fifth
SummaryNames ==
    IF agents = NoFriendsFound THEN {}
    ELSE {agents[i] : i \in {j \in DOMAIN agents : j % 14 = 5}}

C12_BestEffortDirectory ==
    build.pc # "new" =>
        /\ build.pc # "raised"
        /\ Keys(remote_agent_connections) = Friends
        /\ Keys(cards) = Friends
        /\ \A c \in DOMAIN remote_agent_connections :
               \E i \in Fetched :
                   /\ build.fetched[i].name = remote_agent_connections[c].key
                   /\ build.addresses[i] = remote_agent_connections[c].value.agent_url
        /\ build.pc = "built" =>
               /\ Len(build.fetched) = Len(build.addresses)
               /\ SummaryNames = Friends
               /\ agents # EmptyString
               /\ (Friends = {}) = (agents = NoFriendsFound)
               /\ Friends # {} => Len(agents) = 14 * Cardinality(Friends) - 1

\* three addresses: the first serves Bob's card, the second times out, the
\* third serves Alice's; the directory holds Bob and Alice
C12_Witness ==
    /\ build.pc = "built"
    /\ Len(build.addresses) = 3
    /\ build.fetched[1].kind = "card" /\ build.fetched[1].name = "Bob_Agent"
    /\ build.fetched[2] = TimeoutError
    /\ build.fetched[3].kind = "card" /\ build.fetched[3].name = "Alice_Agent"
    /\ Keys(cards) = {"Bob_Agent", "Alice_Agent"}
    /\ SummaryNames = {"Bob_Agent", "Alice_Agent"}

----------------------------------------------------------------------------
(* C13: whatever events the runner produces in a turn, the payloads        *)
(* yielded are progress updates followed by exactly one final payload: no  *)
(* progress update comes after a final payload, no turn yields two final   *)
(* payloads, and a turn that has completed has yielded one.                *)

\* the positions of the final payloads yielded in the turn
Finals == {i \in DOMAIN turn.yielded : turn.yielded[i].is_task_complete}

C13_ProgressThenOneFinal ==
    turn.pc \in {"running", "done"} =>
        /\ Cardinality(Finals) <= 1
        /\ \A i \in Finals : i = Len(turn.yielded)
        /\ turn.pc = "done" => Cardinality(Finals) = 1

----------------------------------------------------------------------------
(* C14: a dispatch failure never aborts the turn.  No exception leaves     *)
(* send_message, whoever the friend is and whatever it answers; a friend   *)
(* the directory does not hold, and an answer that is not a successful     *)
(* task result, give the answer None.                                      *)

IsDispatch == dispatch # NoCall

C14_DispatchNeverRaises ==
    IsDispatch =>
        /\ dispatch.raised = ""
        /\ dispatch.agent_name \notin Keys(remote_agent_connections) =>
               dispatch.ret = None
        /\ (\/ dispatch.send_response.root # "SendMessageSuccessResponse"
            \/ dispatch.send_response.result # "Task") =>
               dispatch.ret = None

====
